---------------------------- MODULE Spec2Model ----------------------------
(***************************************************************************)
(* Model of send-countdown.js, the daily Slack countdown poster.           *)
(*                                                                         *)
(* Time is measured in whole hours.  A "wall" value is a wall-clock        *)
(* reading (hours since 2025-07-20 00:00 on that clock); an "instant" is   *)
(* the value of a JavaScript Date (hours since 2025-07-20 00:00 UTC).      *)
(* Zone offsets are the ones in force during the whole countdown window    *)
(* (Israel is on daylight time, UTC+3, from 2025-03-28 to 2025-10-26).     *)
(*                                                                         *)
(* A digest is modelled as the pair <<algorithm, input>>: a deterministic  *)
(* function of its input whose value is not interpreted.                   *)
(***************************************************************************)
EXTENDS Integers, Sequences, FiniteSets, TLC

----------------------------------------------------------------------------
(* Bounds of the model *)

\* days before START_DATE that the clock of the calculation runs may show
DaysBefore == 2
\* days after the day following TARGET_DATE that the clock may show
DaysAfter == 2
\* number of invocations that may be running at the same time
NProcs == 2
\* total number of invocations of main in one behaviour
MaxRuns == 2
\* days before TARGET_DATE at which the clock of the process runs starts
ClockDaysBefore == 1
\* days after the day following TARGET_DATE at which that clock stops
ClockDaysAfter == 0
\* hours by which the clock of the process runs advances in one step
ClockStep == 24
\* hours between two instants of the calculation runs
CalcStep == 3

----------------------------------------------------------------------------
(* Program constants *)

\* 86_400_000 ms, in hours
MS_PER_DAY == 24
\* START_DATE = "2025-07-20", as a day number
START_DATE == 0
\* TARGET_DATE = "2025-10-18", as a day number (90 days after START_DATE)
TARGET_DATE == 90
EVENT_NAME == "What have you done today to double your money?"
MILESTONES == {90, 75, 60, 45, 30, 21, 14, 10, 7, 5, 3, 2, 1, 0}
BAR_LENGTH == 30
BAR_FILLED == "filled"
BAR_EMPTY == "empty"
\* generic.length and milestoneFlavor.length in pickNudge
GENERIC_LENGTH == 5
MILESTONE_FLAVOR_LENGTH == 5

DEFAULT_TZ == "Asia/Jerusalem"
\* the zones a host or the TZ variable may name
Zones == {"Asia/Jerusalem", "UTC", "Asia/Tokyo"}
\* the zone of the hosted runner (runs-on: ubuntu-latest)
RunnerZone == "UTC"
\* the value of process.env.TZ when the variable is not set
Unset == ""

\* UTC offset of a zone, in hours, during the countdown window
Offset(zone) ==
    CASE zone = "Asia/Jerusalem" -> 3
      [] zone = "UTC" -> 0
      [] zone = "Asia/Tokyo" -> 9

----------------------------------------------------------------------------
VARIABLES
    hostZone,   \* the zone of the machine the script runs on
    envTZ,      \* process.env.TZ (Unset when absent)
    clock,      \* the instant of the latest reading of the system clock
    file,       \* .last_post_hash: {} when absent, else {content}
    pc,         \* per invocation: position in main
    webhook,    \* per invocation: whether SLACK_WEBHOOK_URL is set
    loc,        \* per invocation: the locals of main (see MainCompute)
    outcome,    \* per invocation: how the run ended
    exitCode,   \* per invocation: exit status of the process
    err,        \* per invocation: a storage call of its guard failed
    wrote,      \* per invocation: its guard wrote the file
    guardRet,   \* per invocation: what alreadyPostedGuard returned
    pub,        \* per invocation: state of the postToSlack promise
    overlap,    \* per invocation: another one was running during it
    pred,       \* per invocation: the one that ended last before it began
                \* (0 if none, or if another one was running when it began)
    lastRun,    \* the invocation that ended last (0 if none)
    posts,      \* the texts handed to postToSlack, in call order
    started,    \* number of invocations started so far
    calc1,      \* calculation runs: locals of main at a first instant
    calc2       \* calculation runs: locals of main at a second instant

envVars == <<hostZone, envTZ>>
procVars == <<clock, file, pc, webhook, loc, outcome, exitCode, err, wrote,
              guardRet, pub, overlap, pred, lastRun, posts, started>>
calcVars == <<calc1, calc2>>
vars == <<envVars, procVars, calcVars>>

----------------------------------------------------------------------------
(* Time resolver.  A Date made from a string without zone is read as wall   *)
(* time of the process zone; toLocaleString prints an instant as wall time  *)
(* of the zone it is given.  Differences of Dates are differences of        *)
(* instants.                                                                *)

\* const TZ = process.env.TZ || "Asia/Jerusalem"
TZ == IF envTZ = Unset THEN DEFAULT_TZ ELSE envTZ

\* the zone in which the runtime reads and prints zone-less date strings:
\* process.env.TZ when set, the host's zone otherwise
ProcessZone == IF envTZ = Unset THEN hostZone ELSE envTZ

\* new Date(str) for a date-time string without zone: the wall reading is
\* taken in the process zone
ParseLocal(wall) == wall - Offset(ProcessZone)

\* date.toLocaleString("en-US", { timeZone: tz }): wall reading in tz
toLocaleString(instant, tz) == instant + Offset(tz)

localStartOfDay(dateStr, tz) ==
    ParseLocal(toLocaleString(ParseLocal(dateStr * MS_PER_DAY), tz))

\* clk is the value of new Date()
todayLocal(tz, clk) == ParseLocal(toLocaleString(clk, tz))

----------------------------------------------------------------------------
(* Progress calculator *)

Min(a, b) == IF a <= b THEN a ELSE b
Max(a, b) == IF a >= b THEN a ELSE b

\* Math.floor((b - a) / 86_400_000)
daysDiff(a, b) == (b - a) \div MS_PER_DAY

\* variant: the remaining days rounded down instead of up
daysLeft_Floor(nowLocal, targetLocal) == (targetLocal - nowLocal) \div MS_PER_DAY

\* Math.ceil((targetLocal - nowLocal) / 86_400_000)
daysLeft(nowLocal, targetLocal) == 0 - ((nowLocal - targetLocal) \div MS_PER_DAY)

\* String.prototype.repeat
Repeat(glyph, n) == [i \in 1..n |-> glyph]

\* variant: the empty part of the bar always has BAR_LENGTH glyphs
buildProgress_FullEmptyPart(elapsedDays, totalDays) ==
    LET num == Min(totalDays, Max(0, elapsedDays))
        filled == (2 * BAR_LENGTH * num + totalDays) \div (2 * totalDays)
    IN [bar |-> Repeat(BAR_FILLED, filled) \o Repeat(BAR_EMPTY, BAR_LENGTH),
        pct |-> (2000 * num + totalDays) \div (2 * totalDays)]

\* ratio is the fraction num / totalDays with num = clamp(elapsedDays, 0, totalDays);
\* Math.round(x) is floor(x + 1/2); toFixed(1) rounds to the nearest tenth.
\* pct is the percent string as a count of tenths ("44.4" is 444).
buildProgress(elapsedDays, totalDays) ==
    LET num == Min(totalDays, Max(0, elapsedDays))
        filled == (2 * BAR_LENGTH * num + totalDays) \div (2 * totalDays)
    IN [bar |-> Repeat(BAR_FILLED, filled) \o Repeat(BAR_EMPTY, BAR_LENGTH - filled),
        pct |-> (2000 * num + totalDays) \div (2 * totalDays)]

----------------------------------------------------------------------------
(* Renderer *)

\* createHash(alg).update(data).digest("hex")
createHash(alg, data) == <<alg, data>>

\* parseInt(digest.slice(0, 8), 16) % n
PrefixMod(digest, n) == <<digest, n>>

NoPick == PrefixMod(createHash("", <<0, 0>>), 0)

Line(kind, days, pct, pick) ==
    [kind |-> kind, days |-> days, pct |-> pct, pick |-> pick]

\* variant: the milestone line does not test daysLeft > 0
pickNudge_MilestoneAtZero(dLeft, pct, isMilestone) ==
    LET seedSource == <<dLeft, pct>>
        idx == PrefixMod(createHash("md5", seedSource), GENERIC_LENGTH)
        midx == PrefixMod(createHash("sha1", seedSource), MILESTONE_FLAVOR_LENGTH)
        l1 == IF dLeft > 1 THEN <<Line("days_left", dLeft, pct, NoPick)>>
              ELSE IF dLeft = 1 THEN <<Line("one_day_left", dLeft, pct, NoPick)>>
              ELSE IF dLeft = 0 THEN <<Line("final_day", dLeft, pct, NoPick)>>
              ELSE << >>
        l2 == IF dLeft > 0 THEN <<Line("prompt", 0, 0, idx)>> ELSE << >>
        l3 == IF isMilestone
              THEN <<Line("milestone_prompt", 0, 0, midx)>> ELSE << >>
        l4 == IF dLeft = 0 THEN <<Line("retro", 0, 0, NoPick)>> ELSE << >>
    IN l1 \o l2 \o l3 \o l4

pickNudge(dLeft, pct, isMilestone) ==
    LET seedSource == <<dLeft, pct>>
        idx == PrefixMod(createHash("md5", seedSource), GENERIC_LENGTH)
        midx == PrefixMod(createHash("sha1", seedSource), MILESTONE_FLAVOR_LENGTH)
        l1 == IF dLeft > 1 THEN <<Line("days_left", dLeft, pct, NoPick)>>
              ELSE IF dLeft = 1 THEN <<Line("one_day_left", dLeft, pct, NoPick)>>
              ELSE IF dLeft = 0 THEN <<Line("final_day", dLeft, pct, NoPick)>>
              ELSE << >>
        l2 == IF dLeft > 0 THEN <<Line("prompt", 0, 0, idx)>> ELSE << >>
        l3 == IF isMilestone /\ dLeft > 0
              THEN <<Line("milestone_prompt", 0, 0, midx)>> ELSE << >>
        l4 == IF dLeft = 0 THEN <<Line("retro", 0, 0, NoPick)>> ELSE << >>
    IN l1 \o l2 \o l3 \o l4

----------------------------------------------------------------------------
(* main, from reading the clock to the hash of the composed message *)

NoCore == [header |-> "", bar |-> << >>, pct |-> 0, nudge |-> << >>]

MainCompute(clk) ==
    LET now == todayLocal(TZ, clk)
        start == localStartOfDay(START_DATE, TZ)
        target == localStartOfDay(TARGET_DATE, TZ)
        totalDays == daysDiff(start, target)
        elapsedDays == Min(totalDays, Max(0, daysDiff(start, now)))
        remaining == daysLeft(now, target)
        isMilestone == remaining \in MILESTONES
        stopped == remaining < 0
        progress == buildProgress(elapsedDays, totalDays)
        nudge == pickNudge(remaining, progress.pct, isMilestone)
        core == IF stopped THEN NoCore
                ELSE [header |-> EVENT_NAME, bar |-> progress.bar,
                      pct |-> progress.pct, nudge |-> nudge]
    IN [clk |-> clk, now |-> now, start |-> start, target |-> target,
        totalDays |-> totalDays, elapsedDays |-> elapsedDays,
        remaining |-> remaining, isMilestone |-> isMilestone,
        stopped |-> stopped, core |-> core,
        hash |-> createHash("md5", core)]

\* the calendar day, in the zone TZ, that contains the instant clk
LocalDay(clk) == (clk + Offset(TZ)) \div MS_PER_DAY

----------------------------------------------------------------------------
(* The invocations of main that share one working directory.  Invocation p *)
(* is the p-th one to start.                                               *)

Procs == 1..MaxRuns

ClockMin == (TARGET_DATE - ClockDaysBefore) * MS_PER_DAY
ClockMax == (TARGET_DATE + 1 + ClockDaysAfter) * MS_PER_DAY

NoLoc ==
    [clk |-> 0, now |-> 0, start |-> 0, target |-> 0, totalDays |-> 0,
     elapsedDays |-> 0, remaining |-> 0, isMilestone |-> FALSE,
     stopped |-> FALSE, core |-> NoCore, hash |-> createHash("md5", NoCore)]

\* what new Date() may return: the time of the last reading or a later one
ClockReadings ==
    {t \in clock..ClockMax : (t - ClockMin) % ClockStep = 0}

Active(q) == pc[q] \notin {"idle", "done"}

EnvInit ==
    /\ hostZone = RunnerZone
    /\ envTZ \in {Unset, DEFAULT_TZ}

ProcInit ==
    /\ clock = ClockMin
    /\ file = {}
    /\ pc = [p \in Procs |-> "idle"]
    /\ webhook = [p \in Procs |-> FALSE]
    /\ loc = [p \in Procs |-> NoLoc]
    /\ outcome = [p \in Procs |-> "none"]
    /\ exitCode = [p \in Procs |-> -1]
    /\ err = [p \in Procs |-> FALSE]
    /\ wrote = [p \in Procs |-> FALSE]
    /\ guardRet = [p \in Procs |-> FALSE]
    /\ pub = [p \in Procs |-> "none"]
    /\ overlap = [p \in Procs |-> FALSE]
    /\ pred = [p \in Procs |-> 0]
    /\ lastRun = 0
    /\ posts = << >>
    /\ started = 0

CalcIdle ==
    /\ calc1 = NoLoc
    /\ calc2 = NoLoc

Init == EnvInit /\ ProcInit /\ CalcIdle

\* the process starts at the instant t: main runs up to its first exit,
\* return or file access
Start(p) ==
    /\ p = started + 1
    /\ Cardinality({q \in Procs : Active(q)}) < NProcs
    /\ started' = started + 1
    /\ \E w \in BOOLEAN, t \in ClockReadings :
         LET others == \E q \in Procs : Active(q)
             m == MainCompute(t)
         IN /\ clock' = t
            /\ webhook' = [webhook EXCEPT ![p] = w]
            /\ overlap' = [q \in Procs |->
                              IF q = p THEN others
                              ELSE IF Active(q) THEN TRUE ELSE overlap[q]]
            /\ pred' = [pred EXCEPT ![p] = IF others THEN 0 ELSE lastRun]
            /\ IF ~w
               THEN \* console.error("Missing SLACK_WEBHOOK_URL"); process.exit(1)
                    /\ pc' = [pc EXCEPT ![p] = "done"]
                    /\ outcome' = [outcome EXCEPT ![p] = "missing_secret"]
                    /\ exitCode' = [exitCode EXCEPT ![p] = 1]
                    /\ lastRun' = p
                    /\ UNCHANGED loc
               ELSE /\ loc' = [loc EXCEPT ![p] = m]
                    /\ IF m.remaining < 0
                       THEN \* STOP_AFTER is true: log "Target date passed" and return
                            /\ pc' = [pc EXCEPT ![p] = "done"]
                            /\ outcome' = [outcome EXCEPT ![p] = "elapsed"]
                            /\ exitCode' = [exitCode EXCEPT ![p] = 0]
                            /\ lastRun' = p
                       ELSE /\ pc' = [pc EXCEPT ![p] = "exists"]
                            /\ UNCHANGED <<outcome, exitCode, lastRun>>
    /\ UNCHANGED <<envVars, calcVars, file, posts, err, wrote, guardRet, pub>>

\* alreadyPostedGuard: fs.existsSync(fname); it reports false on any error
ExistsSync(p) ==
    /\ pc[p] = "exists"
    /\ \E fault \in BOOLEAN :
         /\ err' = [err EXCEPT ![p] = err[p] \/ fault]
         /\ pc' = [pc EXCEPT ![p] = IF ~fault /\ file # {} THEN "read" ELSE "write"]
    /\ UNCHANGED <<envVars, calcVars, clock, file, webhook, loc, outcome,
                   exitCode, wrote, guardRet, pub, overlap, pred, lastRun,
                   posts, started>>

\* variant: the stored hash is never found equal
ReadFileSync_NeverEqual(p) ==
    /\ pc[p] = "read"
    /\ \E fault \in BOOLEAN :
         IF fault \/ file = {}
         THEN /\ err' = [err EXCEPT ![p] = TRUE]
              /\ pc' = [pc EXCEPT ![p] = "post"]
         ELSE /\ pc' = [pc EXCEPT ![p] = "write"]
              /\ UNCHANGED err
    /\ UNCHANGED <<envVars, calcVars, clock, file, webhook, loc, wrote, pub,
                   overlap, pred, posts, started, guardRet, outcome,
                   exitCode, lastRun>>

\* alreadyPostedGuard: prev = fs.readFileSync(fname, "utf8").trim() and the
\* comparison with hash.  A stored digest holds no white space, so trim
\* returns it unchanged.  A throw is caught and the guard returns false.
ReadFileSync(p) ==
    /\ pc[p] = "read"
    /\ \E fault \in BOOLEAN :
         IF fault \/ file = {}
         THEN /\ err' = [err EXCEPT ![p] = TRUE]
              /\ pc' = [pc EXCEPT ![p] = "post"]
              /\ UNCHANGED <<guardRet, outcome, exitCode, lastRun>>
         ELSE IF loc[p].hash \in file
         THEN \* return true; main logs "Already posted ..." and returns
              /\ guardRet' = [guardRet EXCEPT ![p] = TRUE]
              /\ pc' = [pc EXCEPT ![p] = "done"]
              /\ outcome' = [outcome EXCEPT ![p] = "duplicate"]
              /\ exitCode' = [exitCode EXCEPT ![p] = 0]
              /\ lastRun' = p
              /\ UNCHANGED err
         ELSE /\ pc' = [pc EXCEPT ![p] = "write"]
              /\ UNCHANGED <<err, guardRet, outcome, exitCode, lastRun>>
    /\ UNCHANGED <<envVars, calcVars, clock, file, webhook, loc, wrote, pub,
                   overlap, pred, posts, started>>

\* variant: a failing write is not caught and ends the process
WriteFileSync_Uncaught(p) ==
    /\ pc[p] = "write"
    /\ \E fault \in BOOLEAN :
         IF fault
         THEN /\ err' = [err EXCEPT ![p] = TRUE]
              /\ pc' = [pc EXCEPT ![p] = "done"]
              /\ outcome' = [outcome EXCEPT ![p] = "crash"]
              /\ exitCode' = [exitCode EXCEPT ![p] = 1]
              /\ lastRun' = p
              /\ UNCHANGED <<file, wrote>>
         ELSE /\ file' = {loc[p].hash}
              /\ wrote' = [wrote EXCEPT ![p] = TRUE]
              /\ pc' = [pc EXCEPT ![p] = "post"]
              /\ UNCHANGED <<err, outcome, exitCode, lastRun>>
    /\ UNCHANGED <<envVars, calcVars, clock, webhook, loc, guardRet, pub,
                   overlap, pred, posts, started>>

\* variant: the hash is not stored
WriteFileSync_NoWrite(p) ==
    /\ pc[p] = "write"
    /\ \E fault \in BOOLEAN :
         IF fault
         THEN err' = [err EXCEPT ![p] = TRUE]
         ELSE UNCHANGED err
    /\ pc' = [pc EXCEPT ![p] = "post"]
    /\ UNCHANGED <<envVars, calcVars, clock, file, wrote, webhook, loc,
                   outcome, exitCode, guardRet, pub, overlap, pred, lastRun,
                   posts, started>>

\* alreadyPostedGuard: fs.writeFileSync(fname, hash), then return false.
\* A throw is caught and the guard returns false as well.
WriteFileSync(p) ==
    /\ pc[p] = "write"
    /\ \E fault \in BOOLEAN :
         IF fault
         THEN /\ err' = [err EXCEPT ![p] = TRUE]
              /\ UNCHANGED <<file, wrote>>
         ELSE /\ file' = {loc[p].hash}
              /\ wrote' = [wrote EXCEPT ![p] = TRUE]
              /\ UNCHANGED err
    /\ pc' = [pc EXCEPT ![p] = "post"]
    /\ UNCHANGED <<envVars, calcVars, clock, webhook, loc, outcome, exitCode,
                   guardRet, pub, overlap, pred, lastRun, posts, started>>

\* main calls postToSlack(core): client.chat.postMessage is invoked
PostToSlack(p) ==
    /\ pc[p] = "post"
    /\ posts' = Append(posts, loc[p].core)
    /\ pub' = [pub EXCEPT ![p] = "pending"]
    /\ pc' = [pc EXCEPT ![p] = "await"]
    /\ UNCHANGED <<envVars, calcVars, clock, file, webhook, loc, outcome,
                   exitCode, err, wrote, guardRet, overlap, pred, lastRun,
                   started>>

\* variant: a failed publish is logged but the process exits normally
PublishSettle_NoExit(p) ==
    /\ pc[p] = "await"
    /\ \E ok \in BOOLEAN :
         /\ pub' = [pub EXCEPT ![p] = IF ok THEN "ok" ELSE "failed"]
         /\ outcome' = [outcome EXCEPT ![p] = IF ok THEN "posted" ELSE "publish_failed"]
         /\ exitCode' = [exitCode EXCEPT ![p] = 0]
    /\ lastRun' = p
    /\ pc' = [pc EXCEPT ![p] = "done"]
    /\ UNCHANGED <<envVars, calcVars, clock, file, webhook, loc, err, wrote,
                   guardRet, overlap, pred, posts, started>>

\* variant: a failed publish removes the stored hash
PublishSettle_Rollback(p) ==
    /\ pc[p] = "await"
    /\ \E ok \in BOOLEAN :
         /\ pub' = [pub EXCEPT ![p] = IF ok THEN "ok" ELSE "failed"]
         /\ outcome' = [outcome EXCEPT ![p] = IF ok THEN "posted" ELSE "publish_failed"]
         /\ exitCode' = [exitCode EXCEPT ![p] = IF ok THEN 0 ELSE 1]
         /\ file' = IF ok THEN file ELSE {}
    /\ lastRun' = p
    /\ pc' = [pc EXCEPT ![p] = "done"]
    /\ UNCHANGED <<envVars, calcVars, clock, webhook, loc, err, wrote,
                   guardRet, overlap, pred, posts, started>>

\* the promise settles: .then logs "Posted", .catch logs and process.exit(1)
PublishSettle(p) ==
    /\ pc[p] = "await"
    /\ \E ok \in BOOLEAN :
         /\ pub' = [pub EXCEPT ![p] = IF ok THEN "ok" ELSE "failed"]
         /\ outcome' = [outcome EXCEPT ![p] = IF ok THEN "posted" ELSE "publish_failed"]
         /\ exitCode' = [exitCode EXCEPT ![p] = IF ok THEN 0 ELSE 1]
    /\ lastRun' = p
    /\ pc' = [pc EXCEPT ![p] = "done"]
    /\ UNCHANGED <<envVars, calcVars, clock, file, webhook, loc, err, wrote,
                   guardRet, overlap, pred, posts, started>>

Next ==
    \/ \E p \in Procs : Start(p)
    \/ \E p \in Procs : ExistsSync(p)
    \/ \E p \in Procs : ReadFileSync(p)
    \/ \E p \in Procs : WriteFileSync(p)
    \/ \E p \in Procs : PostToSlack(p)
    \/ \E p \in Procs : PublishSettle(p)

Spec == Init /\ [][Next]_vars

TypeOK ==
    /\ \A p \in Procs : pc[p] \in {"idle", "exists", "read", "write", "post", "await", "done"}
    /\ Cardinality(file) <= 1
    /\ Len(posts) <= MaxRuns

----------------------------------------------------------------------------
(* Calculation runs: main's calculation at every instant of a window that  *)
(* begins before START_DATE and ends after TARGET_DATE, in every           *)
(* environment, and again at a second instant of the same calendar day.    *)

CalcMin == (START_DATE - DaysBefore) * MS_PER_DAY
CalcMax == (TARGET_DATE + 1 + DaysAfter) * MS_PER_DAY

CalcReadings == {t \in CalcMin..CalcMax : (t - CalcMin) % CalcStep = 0}

CalcEnvInit ==
    /\ hostZone \in Zones
    /\ envTZ \in {Unset} \cup Zones

CalcInit == CalcEnvInit /\ ProcInit /\ CalcIdle

\* a run of main at the instant t
CalcRun ==
    /\ calc1 = NoLoc
    /\ \E t \in CalcReadings : calc1' = MainCompute(t)
    /\ calc2' = NoLoc
    /\ UNCHANGED <<envVars, procVars>>

\* a second run of main, later on the calendar day (in TZ) of the first
CalcRerun ==
    /\ calc1 # NoLoc
    /\ calc2 = NoLoc
    /\ \E t \in CalcReadings :
         /\ t >= calc1.clk
         /\ LocalDay(t) = LocalDay(calc1.clk)
         /\ calc2' = MainCompute(t)
    /\ UNCHANGED <<envVars, procVars, calc1>>

CalcNext == CalcRun \/ CalcRerun

CalcSpec == CalcInit /\ [][CalcNext]_vars

\* the kinds of the lines of a nudge, in order
Kinds(nudge) == [i \in 1..Len(nudge) |-> nudge[i].kind]

\* the number of leading filled glyphs of a bar
Filled(bar) == Cardinality({i \in 1..Len(bar) : bar[i] = BAR_FILLED})

\* C3 (as claimed): the run is stopped exactly from the midnight that
\* follows the target day on, on the target day remainingDays is 0, and a
\* stopped run composes no message.
C3_StopRule ==
    calc1 # NoLoc =>
        /\ calc1.stopped <=> LocalDay(calc1.clk) > TARGET_DATE
        /\ LocalDay(calc1.clk) = TARGET_DATE => calc1.remaining = 0
        /\ calc1.stopped => calc1.core = NoCore

\* The stop rule of C3 in the environments in which the process zone is
\* the zone TZ (TZ set, as the workflow sets it, or a host in that zone).
StopRuleWhenZonesAgree == ProcessZone = TZ => C3_StopRule

\* C5 (as claimed): two runs at instants of the same local calendar day, both
\* with remainingDays >= 0, compute equal elapsedDays and remainingDays and
\* compose the same message with the same hash.
C5_SameDaySameMessage ==
    (calc1 # NoLoc /\ calc2 # NoLoc /\ calc1.remaining >= 0 /\ calc2.remaining >= 0) =>
        /\ calc1.elapsedDays = calc2.elapsedDays
        /\ calc1.remaining = calc2.remaining
        /\ calc1.core = calc2.core
        /\ calc1.hash = calc2.hash

\* The statement of C5 in the environments in which the process zone is TZ.
SameDaySameMessageWhenZonesAgree == ProcessZone = TZ => C5_SameDaySameMessage

\* C7: the composed message holds a milestone line exactly when remainingDays
\* is in MILESTONES and positive; on the final day the nudge is the final-day
\* line followed by the retrospective line, and nothing else.
C7_MilestoneLine ==
    (calc1 # NoLoc /\ ~calc1.stopped) =>
        LET lines == calc1.core.nudge
        IN /\ (\E i \in 1..Len(lines) : lines[i].kind = "milestone_prompt")
                <=> (calc1.remaining \in MILESTONES /\ calc1.remaining > 0)
           /\ calc1.remaining = 0 => Kinds(lines) = <<"final_day", "retro">>

C7_Witness ==
    /\ calc1 # NoLoc
    /\ calc1.remaining = 0
    /\ Len(calc1.core.nudge) = 2
    /\ calc1.core.nudge[2].kind = "retro"

\* C8: for every instant, elapsedDays lies in 0..totalDays, and the bar built
\* from it has BAR_LENGTH glyphs: filled = round(ratio * BAR_LENGTH) filled
\* ones, with 0 <= filled <= BAR_LENGTH, followed by empty ones.
C8_ElapsedAndBar ==
    calc1 # NoLoc =>
        LET bar == buildProgress(calc1.elapsedDays, calc1.totalDays).bar
            f == Filled(bar)
        IN /\ calc1.elapsedDays \in 0..calc1.totalDays
           /\ Len(bar) = BAR_LENGTH
           /\ f \in 0..BAR_LENGTH
           /\ \A i \in 1..Len(bar) : bar[i] = IF i <= f THEN BAR_FILLED ELSE BAR_EMPTY
           \* f = floor(ratio * BAR_LENGTH + 1/2)
           /\ 2 * calc1.totalDays * f <= 2 * BAR_LENGTH * calc1.elapsedDays + calc1.totalDays
           /\ 2 * BAR_LENGTH * calc1.elapsedDays + calc1.totalDays < 2 * calc1.totalDays * (f + 1)

C8_Witness ==
    /\ calc1 # NoLoc
    /\ calc1.now > calc1.target + MS_PER_DAY
    /\ calc1.elapsedDays = calc1.totalDays
    /\ Filled(buildProgress(calc1.elapsedDays, calc1.totalDays).bar) = BAR_LENGTH

\* C10: target - start being a whole number of days, in a run with
\* remainingDays >= 0 the sum elapsedDays + remainingDays is totalDays
\* exactly when now >= start; before start elapsedDays is 0 and
\* remainingDays exceeds totalDays.
C10_ElapsedPlusRemaining ==
    (calc1 # NoLoc /\ (calc1.target - calc1.start) % MS_PER_DAY = 0
                   /\ calc1.remaining >= 0) =>
        /\ calc1.now >= calc1.start
              => calc1.elapsedDays + calc1.remaining = calc1.totalDays
        /\ calc1.now < calc1.start
              => /\ calc1.elapsedDays + calc1.remaining # calc1.totalDays
                 /\ calc1.elapsedDays = 0
                 /\ calc1.remaining > calc1.totalDays

C10_Witness ==
    /\ calc1 # NoLoc
    /\ calc1.now > calc1.start
    /\ (calc1.now - calc1.start) % MS_PER_DAY # 0
    /\ calc1.remaining > 0
    /\ calc1.elapsedDays > 0
    /\ calc1.elapsedDays + calc1.remaining = calc1.totalDays

----------------------------------------------------------------------------
(* Properties of the invocations *)

\* invocation p got as far as composing a message
Composed(p) == pc[p] # "idle" /\ webhook[p] /\ ~loc[p].stopped

\* invocation p ran alone and its guard met no storage error
Clean(p) == ~overlap[p] /\ ~err[p]

\* invocation p directly follows invocation q, both ran alone without storage
\* error, and both composed the same text
Repeats(p, q) ==
    /\ q # 0
    /\ pred[p] = q
    /\ Composed(p) /\ Composed(q)
    /\ loc[p].core = loc[q].core
    /\ Clean(p) /\ Clean(q)

\* the number of calls of postToSlack with the text c
PostCount(c) == Cardinality({i \in 1..Len(posts) : posts[i] = c})

\* C1: of two consecutive invocations that do not overlap, meet no storage
\* error and compose the same text, the second one's guard reports a duplicate
\* and the second one never calls postToSlack.
C1_SecondRunSkips ==
    \A p \in Procs : \A q \in Procs :
        Repeats(p, q) =>
            /\ pc[p] \in {"exists", "read", "done"}
            /\ pub[p] = "none"
            /\ pc[p] = "done" => (guardRet[p] /\ outcome[p] = "duplicate")

C1_Witness ==
    \E p \in Procs : \E q \in Procs :
        /\ Repeats(p, q)
        /\ pc[p] = "done"
        /\ guardRet[p]
        /\ PostCount(loc[p].core) = 1

\* no text has been handed to postToSlack twice
NoRepeatedPost ==
    \A i \in 1..Len(posts) : \A j \in 1..Len(posts) :
        i # j => posts[i] # posts[j]

\* C2 (as claimed): storage errors aside, postToSlack is called at most once
\* with any one text, whether or not the invocations overlap.
C2_AtMostOnePost ==
    (\A p \in Procs : ~err[p]) => NoRepeatedPost

\* C2 (amended): as long as no invocation has overlapped another one and no
\* storage call of a guard has failed, postToSlack has been called at most
\* once with any one text.
C2_AtMostOnePostSequential ==
    (\A p \in Procs : Clean(p)) => NoRepeatedPost

C2_Witness ==
    /\ \A p \in Procs : Clean(p)
    /\ started >= 2
    /\ \A p \in Procs : pc[p] = "done" /\ Composed(p)
    /\ \A p \in Procs : loc[p].core = loc[1].core
    /\ Len(posts) = 1

\* C4: a finished run has ended in exactly one of the five ways (secret
\* missing, window elapsed, duplicate, published, publish failed), and its
\* exit status is 1 exactly when the secret is missing or the publish call
\* failed, and 0 otherwise; a run that has not finished has no exit status.
C4_ExitStatus ==
    \A p \in Procs :
        /\ pc[p] # "done" => exitCode[p] = -1
        /\ pc[p] = "done" =>
             LET ways == <<~webhook[p],
                           webhook[p] /\ loc[p].stopped,
                           guardRet[p],
                           pub[p] = "ok",
                           pub[p] = "failed">>
                 names == <<"missing_secret", "elapsed", "duplicate",
                            "posted", "publish_failed">>
             IN /\ Cardinality({i \in 1..5 : ways[i]}) = 1
                /\ \A i \in 1..5 : ways[i] <=> outcome[p] = names[i]
                /\ exitCode[p] \in {0, 1}
                /\ exitCode[p] = 1 <=> (~webhook[p] \/ pub[p] = "failed")

C4_Witness ==
    \E p \in Procs : \E q \in Procs :
        /\ pc[p] = "done" /\ pub[p] = "failed" /\ exitCode[p] = 1
        /\ pc[q] = "done" /\ outcome[q] = "duplicate" /\ exitCode[q] = 0

\* C6: once a storage call of the guard has failed in a run, the guard
\* returns false, the run goes on to call postToSlack with its text, and its
\* exit status is decided by the publish call alone.
C6_StorageErrorSwallowed ==
    \A p \in Procs :
        err[p] =>
            /\ pc[p] \in {"write", "post", "await", "done"}
            /\ ~guardRet[p]
            /\ pc[p] \in {"await", "done"} => PostCount(loc[p].core) >= 1
            /\ pc[p] = "done" =>
                 /\ pub[p] \in {"ok", "failed"}
                 /\ exitCode[p] = 1 <=> pub[p] = "failed"

C6_Witness ==
    \E p \in Procs :
        /\ err[p]
        /\ loc[p].hash \in file
        /\ ~wrote[p]
        /\ pc[p] = "done"
        /\ outcome[p] = "posted"
        /\ exitCode[p] = 0

\* C9 (as claimed): whenever a run has reached the call of postToSlack, its
\* guard has written the hash to the file.
C9_HashWrittenBeforePost ==
    \A p \in Procs :
        (pc[p] \in {"post", "await"} \/ pub[p] # "none") => wrote[p]

\* C9 (amended): a run that reaches the call of postToSlack after a guard
\* without storage error has written its hash to the file before; when such
\* a run, running alone, has ended with a failed publish, the file still holds
\* its hash; and the invocation that directly follows it, composing the same
\* text, running alone and without storage error, reports a duplicate and
\* does not call postToSlack.
C9_FailedPublishKeepsRecord ==
    /\ \A p \in Procs :
         ((pc[p] \in {"post", "await"} \/ pub[p] # "none") /\ ~err[p]) => wrote[p]
    /\ \A q \in Procs :
         (pc[q] = "done" /\ pub[q] = "failed" /\ Clean(q) /\ lastRun = q
            /\ \A r \in Procs : ~Active(r))
         => file = {loc[q].hash}
    /\ \A p \in Procs : \A q \in Procs :
         (Repeats(p, q) /\ pub[q] = "failed") =>
             /\ pc[p] \in {"exists", "read", "done"}
             /\ pub[p] = "none"
             /\ pc[p] = "done" => outcome[p] = "duplicate"

C9_Witness ==
    \E p \in Procs : \E q \in Procs :
        /\ Repeats(p, q)
        /\ pub[q] = "failed"
        /\ exitCode[q] = 1
        /\ pc[p] = "done"
        /\ outcome[p] = "duplicate"
        /\ PostCount(loc[q].core) = 1
        /\ file = {loc[q].hash}

=============================================================================
